---- MODULE Spec2Model ----
(***************************************************************************)
(* A model of birthday.py: the reminder run as a state machine.  A run     *)
(* reads the birthday file line by line (parse), collects the events the   *)
(* mode's comprehension keeps, fails as a whole when a line was malformed, *)
(* and otherwise sorts and prints (main).  Text is modelled as sequences   *)
(* of one-character strings, dates as [year, month, day] records with the  *)
(* proleptic Gregorian arithmetic of datetime.date.                        *)
(***************************************************************************)
EXTENDS Integers, Sequences, FiniteSets, TLC

(***************************************************************************)
(* Text: str operations used by the program                                *)
(***************************************************************************)

DigitChars == <<"0", "1", "2", "3", "4", "5", "6", "7", "8", "9">>

IsDigit(c) == \E i \in 1..10 : DigitChars[i] = c

DigitVal(c) == (CHOOSE i \in 1..10 : DigitChars[i] = c) - 1

\* str.strip() / str.split(None) whitespace
IsSpace(c) == c \in {" ", "\t", "\n"}

\* s[a:b] of Python, 0-based half-open, as a 1-based sequence slice
Slice(s, a, b) == SubSeq(s, a + 1, b)

\* str.find(c): the 0-based index of the first c, or -1
Find(s, c) ==
    IF \E i \in 1..Len(s) : s[i] = c
    THEN (CHOOSE i \in 1..Len(s) : s[i] = c /\ \A j \in 1..(i - 1) : s[j] # c) - 1
    ELSE -1

\* if '#' in line: line = line[:line.find('#')]
StripComment(line) ==
    IF \E i \in 1..Len(line) : line[i] = "#"
    THEN Slice(line, 0, Find(line, "#"))
    ELSE line

\* str.strip()
Strip(s) ==
    IF \A i \in 1..Len(s) : IsSpace(s[i])
    THEN <<>>
    ELSE LET a == CHOOSE i \in 1..Len(s) :
                     ~IsSpace(s[i]) /\ \A j \in 1..(i - 1) : IsSpace(s[j])
             b == CHOOSE i \in 1..Len(s) :
                     ~IsSpace(s[i]) /\ \A j \in (i + 1)..Len(s) : IsSpace(s[j])
         IN  SubSeq(s, a, b)

\* str.split(None, 1) of a stripped, non-empty string: the list of at most
\* two parts, the first whitespace-delimited word and the rest with the
\* whitespace between them removed
Split1(s) ==
    IF \A i \in 1..Len(s) : ~IsSpace(s[i])
    THEN <<s>>
    ELSE LET w == CHOOSE i \in 1..Len(s) :
                     IsSpace(s[i]) /\ \A j \in 1..(i - 1) : ~IsSpace(s[j])
             r == CHOOSE i \in (w + 1)..Len(s) :
                     ~IsSpace(s[i]) /\ \A j \in (w + 1)..(i - 1) : IsSpace(s[j])
         IN  <<SubSeq(s, 1, w - 1), SubSeq(s, r, Len(s))>>

\* int(s) of a string of ASCII digits
RECURSIVE Int10(_)
Int10(s) ==
    IF s = <<>> THEN 0
    ELSE 10 * Int10(SubSeq(s, 1, Len(s) - 1)) + DigitVal(s[Len(s)])

\* str(n) of a non-negative integer
RECURSIVE StrNat(_)
StrNat(n) ==
    IF n < 10 THEN <<DigitChars[n + 1]>>
    ELSE StrNat(n \div 10) \o <<DigitChars[(n % 10) + 1]>>

\* str(n) / f'{n}' of an integer
Str(n) == IF n < 0 THEN <<"-">> \o StrNat(-n) ELSE StrNat(n)

\* f'{n:0w}' of a non-negative integer: zero-padded to width w
RECURSIVE Pad(_, _)
Pad(s, w) == IF Len(s) >= w THEN s ELSE Pad(<<"0">> \o s, w)

(***************************************************************************)
(* Dates: datetime.date                                                    *)
(***************************************************************************)

\* datetime.MINYEAR and datetime.MAXYEAR, the years datetime.date accepts
MINYEAR == 1
MAXYEAR == 9999

IsLeap(y) == y % 4 = 0 /\ (y % 100 # 0 \/ y % 400 = 0)

DaysInMonth(y, m) ==
    IF m = 2 THEN (IF IsLeap(y) THEN 29 ELSE 28)
    ELSE IF m \in {4, 6, 9, 11} THEN 30 ELSE 31

\* what datetime.date(y, m, d) raises ValueError for
ValidDate(y, m, d) ==
    /\ y \in MINYEAR..MAXYEAR
    /\ m \in 1..12
    /\ d \in 1..DaysInMonth(y, m)

Date(y, m, d) == [year |-> y, month |-> m, day |-> d]

RECURSIVE DaysBeforeMonth(_, _)
DaysBeforeMonth(y, m) ==
    IF m = 1 THEN 0 ELSE DaysBeforeMonth(y, m - 1) + DaysInMonth(y, m - 1)

\* date.toordinal(): days since 0001-01-01, which is day 1
ToOrdinal(dt) ==
    LET y1 == dt.year - 1
    IN  y1 * 365 + (y1 \div 4) - (y1 \div 100) + (y1 \div 400)
        + DaysBeforeMonth(dt.year, dt.month) + dt.day

\* DateLess, were the comparison <=
DateLessOrEqual(a, b) == ToOrdinal(a) <= ToOrdinal(b)

\* a < b on dates
DateLess(a, b) == ToOrdinal(a) < ToOrdinal(b)

\* (a - b).days
DaysBetween(a, b) == ToOrdinal(a) - ToOrdinal(b)

\* str(date): date.isoformat(), YYYY-MM-DD
IsoFormat(dt) ==
    Pad(StrNat(dt.year), 4) \o <<"-">> \o Pad(StrNat(dt.month), 2)
        \o <<"-">> \o Pad(StrNat(dt.day), 2)

(***************************************************************************)
(* The date patterns.  re.match anchors at the start of the string only;   *)
(* each {1,k} is greedy, so of all the ways the pattern matches a prefix   *)
(* the one with the longest first group, then the longest second group,    *)
(* then the longest third group is the match.                              *)
(***************************************************************************)

AllDigits(s, a, b) == b <= Len(s) /\ \A i \in a..b : IsDigit(s[i])

CharAt(s, i, c) == i <= Len(s) /\ s[i] = c

\* the group lengths with which ([0-9]{1,4})-([0-9]{1,2})-([0-9]{1,2})
\* matches a prefix of s
YmdMatches(s) ==
    {g \in (1..4) \X (1..2) \X (1..2) :
        /\ AllDigits(s, 1, g[1])
        /\ CharAt(s, g[1] + 1, "-")
        /\ AllDigits(s, g[1] + 2, g[1] + 1 + g[2])
        /\ CharAt(s, g[1] + g[2] + 2, "-")
        /\ AllDigits(s, g[1] + g[2] + 3, g[1] + g[2] + 2 + g[3])}

\* the group lengths with which ([0-9]{1,2})-([0-9]{1,2}) matches a prefix
MdMatches(s) ==
    {g \in (1..2) \X (1..2) :
        /\ AllDigits(s, 1, g[1])
        /\ CharAt(s, g[1] + 1, "-")
        /\ AllDigits(s, g[1] + 2, g[1] + 1 + g[2])}

\* the greedy choice among the matches: the lexicographically greatest
Greedy(ms) ==
    CHOOSE g \in ms : \A h \in ms :
        \/ h = g
        \/ \E i \in 1..Len(g) :
              /\ h[i] < g[i]
              /\ \A j \in 1..(i - 1) : h[j] = g[j]

\* DATE_YMD.match(date): <<>> for None, else the groups 1..3
DATE_YMD(date) ==
    IF YmdMatches(date) = {} THEN <<>>
    ELSE LET g == Greedy(YmdMatches(date))
         IN  << SubSeq(date, 1, g[1]),
                SubSeq(date, g[1] + 2, g[1] + 1 + g[2]),
                SubSeq(date, g[1] + g[2] + 3, g[1] + g[2] + 2 + g[3]) >>

\* DATE_MD.match(date): <<>> for None, else the groups 1..2
DATE_MD(date) ==
    IF MdMatches(date) = {} THEN <<>>
    ELSE LET g == Greedy(MdMatches(date))
         IN  << SubSeq(date, 1, g[1]),
                SubSeq(date, g[1] + 2, g[1] + 1 + g[2]) >>

(***************************************************************************)
(* parse(): the body of the loop for one line                              *)
(***************************************************************************)

\* Event = namedtuple('Event', 'days desc when')
Event(days, desc, when) == [days |-> days, desc |-> desc, when |-> when]

Yield(ev) == [kind |-> "yield", event |-> ev]

\* raise ValueError: what names the exception, text the string it quotes
Raise(what, text) == [kind |-> "error", what |-> what, text |-> text]

Skip == [kind |-> "skip"]

\* year, month, day = the groups of the pattern that matched, as integers;
\* year = -1 when only DATE_MD matched; <<>> when neither matched
DateFields(date) ==
    LET match_ymd == DATE_YMD(date)
        match_md == DATE_MD(date)
    IN  IF match_ymd # <<>>
        THEN <<Int10(match_ymd[1]), Int10(match_ymd[2]), Int10(match_ymd[3])>>
        ELSE IF match_md # <<>>
        THEN <<-1, Int10(match_md[1]), Int10(match_md[2])>>
        ELSE <<>>

\* whether the description gets the elapsed years appended
HasYear(year) == year > 0

\* the dsc of an Event: the description, with the elapsed years if any
Dsc(year, description, when) ==
    IF HasYear(year)
    THEN description \o <<" ", "(">> \o Str(when.year - year) \o <<")">>
    ELSE description

\* no date: datetime.date(y, m, d) raised ValueError
NoDate == [year |-> 0, month |-> 0, day |-> 0]

\* NewDate, were a Feb 29 the year does not have moved to Mar 1
NewDateMovesLeapDay(y, m, d) ==
    IF ValidDate(y, m, d) THEN Date(y, m, d)
    ELSE IF m = 2 /\ d = 29 /\ ValidDate(y, 3, 1) THEN Date(y, 3, 1)
    ELSE NoDate

\* datetime.date(y, m, d)
NewDate(y, m, d) == IF ValidDate(y, m, d) THEN Date(y, m, d) ELSE NoDate

\* the projection of (month, day) on the reference date, and the Event
Project(year, month, day, description, reference_date) ==
    LET first == NewDate(reference_date.year, month, day)
        second == NewDate(reference_date.year + 1, month, day)
    IN  IF first = NoDate THEN Raise("date", <<>>)
        ELSE IF ~DateLess(first, reference_date)
        THEN Yield(Event(DaysBetween(first, reference_date),
                         Dsc(year, description, first), first))
        ELSE IF second = NoDate THEN Raise("date", <<>>)
        ELSE Yield(Event(DaysBetween(second, reference_date),
                         Dsc(year, description, second), second))

\* one iteration of the loop of parse(): skip, yield an Event, or ValueError
ParseLine(rawline, reference_date) ==
    LET line == Strip(StripComment(rawline))
    IN  IF line = <<>> THEN Skip
        ELSE LET parts == Split1(line)
             IN  IF Len(parts) # 2 THEN Raise("unpack", <<>>)
                 ELSE LET f == DateFields(parts[1])
                      IN  IF f = <<>> THEN Raise("Malformed date", parts[1])
                          ELSE Project(f[1], f[2], f[3], parts[2],
                                       reference_date)

(***************************************************************************)
(* main(): what the two commands keep, how they order it, what they print  *)
(***************************************************************************)

\* list.sort(key=...): the stable ascending order; k[i] is the key of s[i]
StableSort(s, k) ==
    LET rank(i) == 1 + Cardinality({j \in 1..Len(s) :
                        k[j] < k[i] \/ (k[j] = k[i] /\ j < i)})
    IN  [p \in 1..Len(s) |-> s[CHOOSE i \in 1..Len(s) : rank(i) = p]]

\* Cap, were a limit of 0 a limit too
CapFromZero(events, limit) ==
    IF limit >= 0
    THEN SubSeq(events, 1, IF limit < Len(events) THEN limit ELSE Len(events))
    ELSE events

\* events[:limit] when limit > 0
Cap(events, limit) ==
    IF limit > 0
    THEN SubSeq(events, 1, IF limit < Len(events) THEN limit ELSE Len(events))
    ELSE events

\* ShowsDate, were the date appended from two days on
ShowsDateFromTwo(days) == days >= 2

\* whether describe() appends the date of the next occurrence
ShowsDate(days) == days >= 3

\* describe(days, desc, when)
describe(days, desc, when) ==
    LET t == IF days = 0 THEN <<"t", "o", "d", "a", "y">>
             ELSE IF days = 1 THEN <<"t", "o", "m", "o", "r", "r", "o", "w">>
             ELSE <<"i", "n", " ">> \o Str(days) \o <<" ", "d", "a", "y", "s">>
                    \o (IF ShowsDate(days)
                        THEN <<" ", "(">> \o IsoFormat(when) \o <<")">>
                        ELSE <<>>)
    IN  desc \o <<" ">> \o t

\* f'{e.when}: {e.desc}'
SummaryLine(e) == IsoFormat(e.when) \o <<":", " ">> \o e.desc

\* f'No events in {year}-{month:02}'
NoEventsLine(year, month) ==
    <<"N", "o", " ", "e", "v", "e", "n", "t", "s", " ", "i", "n", " ">>
        \o Str(year) \o <<"-">> \o Pad(StrNat(month), 2)

(***************************************************************************)
(* The inputs of a run                                                     *)
(***************************************************************************)

\* the longest birthday file built from Lines
MaxLines == 3

\* lines of the birthday file, as iterating the file object gives them
Lines ==
    {
      \* "05-17 Al\n"
      <<"0", "5", "-", "1", "7", " ", "A", "l", "\n">>,
      \* "1990-05-18 Bo\n"
      <<"1", "9", "9", "0", "-", "0", "5", "-", "1", "8", " ", "B", "o", "\n">>,
      \* "5-2 Cy # c\n"
      <<"5", "-", "2", " ", "C", "y", " ", "#", " ", "c", "\n">>,
      \* "2-29 Di\n"
      <<"2", "-", "2", "9", " ", "D", "i", "\n">>,
      \* "# x\n"
      <<"#", " ", "x", "\n">>,
      \* "xx Ed\n"
      <<"x", "x", " ", "E", "d", "\n">>
    }

\* more lines: the shapes of date token and of line the patterns and
\* datetime.date tell apart
EdgeLines ==
    {
      \* "05-17 A"
      <<"0", "5", "-", "1", "7", " ", "A">>,
      \* "5-17 A"
      <<"5", "-", "1", "7", " ", "A">>,
      \* "05-16 A"
      <<"0", "5", "-", "1", "6", " ", "A">>,
      \* "05-18 A"
      <<"0", "5", "-", "1", "8", " ", "A">>,
      \* "05-19 A"
      <<"0", "5", "-", "1", "9", " ", "A">>,
      \* "05-20 A"
      <<"0", "5", "-", "2", "0", " ", "A">>,
      \* "1990-05-17 A"
      <<"1", "9", "9", "0", "-", "0", "5", "-", "1", "7", " ", "A">>,
      \* "0-05-17 A"
      <<"0", "-", "0", "5", "-", "1", "7", " ", "A">>,
      \* "0000-05-17 A"
      <<"0", "0", "0", "0", "-", "0", "5", "-", "1", "7", " ", "A">>,
      \* "1-05-17 A"
      <<"1", "-", "0", "5", "-", "1", "7", " ", "A">>,
      \* "9999-05-17 A"
      <<"9", "9", "9", "9", "-", "0", "5", "-", "1", "7", " ", "A">>,
      \* "2024-05-17 A"
      <<"2", "0", "2", "4", "-", "0", "5", "-", "1", "7", " ", "A">>,
      \* "1990-02-29 A"
      <<"1", "9", "9", "0", "-", "0", "2", "-", "2", "9", " ", "A">>,
      \* "1992-02-29 A"
      <<"1", "9", "9", "2", "-", "0", "2", "-", "2", "9", " ", "A">>,
      \* "02-29 A"
      <<"0", "2", "-", "2", "9", " ", "A">>,
      \* "2-29 A"
      <<"2", "-", "2", "9", " ", "A">>,
      \* "02-28 A"
      <<"0", "2", "-", "2", "8", " ", "A">>,
      \* "03-01 A"
      <<"0", "3", "-", "0", "1", " ", "A">>,
      \* "12-31 A"
      <<"1", "2", "-", "3", "1", " ", "A">>,
      \* "01-01 A"
      <<"0", "1", "-", "0", "1", " ", "A">>,
      \* "1-1 A"
      <<"1", "-", "1", " ", "A">>,
      \* "1-2-3 A"
      <<"1", "-", "2", "-", "3", " ", "A">>,
      \* "05-17xyz A"
      <<"0", "5", "-", "1", "7", "x", "y", "z", " ", "A">>,
      \* "1990-05-17-9 A"
      <<"1", "9", "9", "0", "-", "0", "5", "-", "1", "7", "-", "9", " ", "A">>,
      \* "2024-1-155 A"
      <<"2", "0", "2", "4", "-", "1", "-", "1", "5", "5", " ", "A">>,
      \* "5-123 A"
      <<"5", "-", "1", "2", "3", " ", "A">>,
      \* "05-17-1990 A"
      <<"0", "5", "-", "1", "7", "-", "1", "9", "9", "0", " ", "A">>,
      \* "12345-05-17 A"
      <<"1", "2", "3", "4", "5", "-", "0", "5", "-", "1", "7", " ", "A">>,
      \* "123-4 A"
      <<"1", "2", "3", "-", "4", " ", "A">>,
      \* "05/17 A"
      <<"0", "5", "/", "1", "7", " ", "A">>,
      \* "0517 A"
      <<"0", "5", "1", "7", " ", "A">>,
      \* "-05-17 A"
      <<"-", "0", "5", "-", "1", "7", " ", "A">>,
      \* "x05-17 A"
      <<"x", "0", "5", "-", "1", "7", " ", "A">>,
      \* "13-01 A"
      <<"1", "3", "-", "0", "1", " ", "A">>,
      \* "00-10 A"
      <<"0", "0", "-", "1", "0", " ", "A">>,
      \* "04-31 A"
      <<"0", "4", "-", "3", "1", " ", "A">>,
      \* "05-00 A"
      <<"0", "5", "-", "0", "0", " ", "A">>,
      \* "1990-13-01 A"
      <<"1", "9", "9", "0", "-", "1", "3", "-", "0", "1", " ", "A">>,
      \* "05-17"
      <<"0", "5", "-", "1", "7">>,
      \* "05-17 # A"
      <<"0", "5", "-", "1", "7", " ", "#", " ", "A">>,
      \* "#05-17 A"
      <<"#", "0", "5", "-", "1", "7", " ", "A">>,
      \* ""
      <<>>,
      \* "  \n"
      <<" ", " ", "\n">>,
      \* "\t05-17\tA \n"
      <<"\t", "0", "5", "-", "1", "7", "\t", "A", " ", "\n">>,
      \* "05-17  A B"
      <<"0", "5", "-", "1", "7", " ", " ", "A", " ", "B">>
    }

\* datetime.date.today() of the runs over the files built from Lines
Todays == {Date(2024, 5, 17)}

\* datetime.date.today() of the runs over a single line of EdgeLines: around
\* Feb 29 and the turn of the year, in leap and common years
EdgeTodays ==
    { Date(2024, 1, 1), Date(2024, 2, 28), Date(2024, 2, 29), Date(2024, 3, 1),
      Date(2024, 5, 17), Date(2024, 5, 18), Date(2024, 12, 31),
      Date(2023, 1, 1), Date(2023, 2, 28), Date(2023, 3, 1),
      Date(2023, 5, 15), Date(2023, 12, 31), Date(2000, 2, 29) }

\* <days>... of the list command
DayArgs == {<<>>, <<350, 1>>}

\* --limit
Limits == {-1, 0, 1, 2}

\* <year> <month> of the summary command, <<>> when not given
YearMonths == {<<>>, <<2024, 5>>, <<2024, 2>>}

\* <year> <month> of the summary runs over a single line of EdgeLines: a
\* century that is no leap year, and the first and the last year of
\* datetime.date
EdgeYearMonths == {<<1900, 2>>, <<1, 1>>, <<9999, 5>>, <<9999, 12>>}

\* docopt's result: the command, its arguments and the options
ListArgs(days, limit) ==
    [summary |-> FALSE, ym |-> <<>>, days |-> days, limit |-> limit]

SummaryArgs(ym, limit) ==
    [summary |-> TRUE, ym |-> ym, days |-> <<>>, limit |-> limit]

Files == UNION {[1..n -> Lines] : n \in 0..MaxLines}

(***************************************************************************)
(* The run                                                                 *)
(***************************************************************************)

VARIABLES
    args,       \* docopt's result
    TODAY,      \* datetime.date.today() at import
    file,       \* the lines of the birthday file
    pc,         \* "parse": in parse()'s loop; "main": after it; "exit"
    lineno,     \* the line enumerate() gave last (0 before the first)
    errors,     \* parse()'s counter
    yielded,    \* what parse() has yielded: <<lineno, Event>> pairs
    events,     \* main()'s list
    stdout,     \* what has been printed, in order
    rc          \* the exit status: "" while running, then "0" or "1"

vars == <<args, TODAY, file, pc, lineno, errors, yielded, events, stdout, rc>>

\* reference_date, were the summary of the current month taken from today
\* and not from the first day of the month
reference_date_today ==
    IF args.summary /\ args.ym # <<>>
    THEN Date(args.ym[1], args.ym[2], 1)
    ELSE TODAY

\* the reference date main() hands to parse()
reference_date ==
    IF args.summary
    THEN IF args.ym # <<>>
         THEN Date(args.ym[1], args.ym[2], 1)
         ELSE [TODAY EXCEPT !.day = 1]
    ELSE TODAY

\* the condition of main()'s comprehension over parse()
Keeps(event) ==
    IF args.summary
    THEN event.when.month = reference_date.month
            /\ event.when.year = reference_date.year
    ELSE args.days = <<>> \/ \E i \in 1..Len(args.days) : args.days[i] = event.days

Init ==
    /\ \/ /\ file \in Files
          /\ TODAY \in Todays
          /\ \/ \E d \in DayArgs, l \in Limits : args = ListArgs(d, l)
             \/ \E ym \in YearMonths : args = SummaryArgs(ym, 0)
       \/ /\ file \in {<<l>> : l \in EdgeLines}
          /\ \/ /\ TODAY \in EdgeTodays
                /\ args \in {ListArgs(<<>>, 0), SummaryArgs(<<>>, 0)}
             \/ /\ TODAY = Date(2024, 5, 17)
                /\ \E ym \in EdgeYearMonths : args = SummaryArgs(ym, 0)
    /\ pc = "parse"
    /\ lineno = 0
    /\ errors = 0
    /\ yielded = <<>>
    /\ events = <<>>
    /\ stdout = <<>>
    /\ rc = ""

\* print(f'{lineno}: {e}') in parse()
Diagnostic(n, e) == [by |-> "parse", lineno |-> n, what |-> e.what, text |-> e.text]

\* print(line) in main()
Printed(text) == [by |-> "main", text |-> text]

\* OnError, were the except clause to give up at the first bad line
OnErrorAbort(n, e) ==
    /\ errors' = errors + 1
    /\ stdout' = Append(stdout, Diagnostic(n, e))
    /\ lineno' = n
    /\ pc' = "exit"
    /\ rc' = "1"
    /\ UNCHANGED <<yielded, events>>

\* OnError, were the except clause to count the error without printing it
OnErrorSilent(n, e) ==
    /\ errors' = errors + 1
    /\ lineno' = n
    /\ pc' = "parse"
    /\ UNCHANGED <<yielded, events, stdout, rc>>

\* what the except clause does with a ValueError raised at line n
OnError(n, e) ==
    /\ errors' = errors + 1
    /\ stdout' = Append(stdout, Diagnostic(n, e))
    /\ lineno' = n
    /\ pc' = "parse"
    /\ UNCHANGED <<yielded, events, rc>>

\* one turn of parse()'s loop, and of the comprehension that consumes it
ParseStep ==
    /\ pc = "parse"
    /\ lineno < Len(file)
    /\ LET n == lineno + 1
           r == ParseLine(file[n], reference_date)
       IN  CASE r.kind = "skip" ->
                  /\ lineno' = n
                  /\ UNCHANGED <<pc, errors, yielded, events, stdout, rc>>
             [] r.kind = "yield" ->
                  /\ lineno' = n
                  /\ yielded' = Append(yielded, <<n, r.event>>)
                  /\ events' = IF Keeps(r.event)
                               THEN Append(events, r.event) ELSE events
                  /\ UNCHANGED <<pc, errors, stdout, rc>>
             [] r.kind = "error" -> OnError(n, r)
    /\ UNCHANGED <<args, TODAY, file>>

\* the end of the file: raise SystemExit if errors, else back in main()
ParseEnd ==
    /\ pc = "parse"
    /\ lineno = Len(file)
    /\ IF errors # 0
       THEN pc' = "exit" /\ rc' = "1"
       ELSE pc' = "main" /\ rc' = rc
    /\ UNCHANGED <<args, TODAY, file, lineno, errors, yielded, events, stdout>>

\* the summary command after the comprehension: sort by date and print
Summary ==
    /\ pc = "main"
    /\ args.summary
    /\ LET sorted == StableSort(events,
                                [i \in 1..Len(events) |-> ToOrdinal(events[i].when)])
       IN  /\ events' = sorted
           /\ stdout' = stdout \o
                 (IF sorted # <<>>
                  THEN [i \in 1..Len(sorted) |-> Printed(SummaryLine(sorted[i]))]
                  ELSE <<Printed(NoEventsLine(reference_date.year,
                                              reference_date.month))>>)
    /\ pc' = "exit"
    /\ rc' = "0"
    /\ UNCHANGED <<args, TODAY, file, lineno, errors, yielded>>

\* the list command after the comprehension: sort by days, cap, print
List ==
    /\ pc = "main"
    /\ ~args.summary
    /\ LET sorted == StableSort(events, [i \in 1..Len(events) |-> events[i].days])
           capped == Cap(sorted, args.limit)
       IN  /\ events' = capped
           /\ stdout' = stdout \o
                 [i \in 1..Len(capped) |->
                     Printed(describe(capped[i].days, capped[i].desc,
                                      capped[i].when))]
    /\ pc' = "exit"
    /\ rc' = "0"
    /\ UNCHANGED <<args, TODAY, file, lineno, errors, yielded>>

Next == ParseStep \/ ParseEnd \/ Summary \/ List

Spec == Init /\ [][Next]_vars

(***************************************************************************)
(* Vocabulary of the properties                                            *)
(***************************************************************************)

\* line n of the file without its comment and surrounding whitespace
LineOf(n) == Strip(StripComment(file[n]))

\* what the loop body makes of line n
Outcome(n) == ParseLine(file[n], reference_date)

\* line n is not blank and fails to parse
Fails(n) == Outcome(n).kind = "error"

\* line n has a date token and a description
HasTwoParts(n) == LineOf(n) # <<>> /\ Len(Split1(LineOf(n))) = 2

TokenOf(n) == Split1(LineOf(n))[1]

DescriptionOf(n) == Split1(LineOf(n))[2]

\* parse() yielded an Event for line n
YieldedAt(n) == \E i \in 1..Len(yielded) : yielded[i][1] = n

\* parse() printed a diagnostic citing line n
DiagnosedAt(n) ==
    \E i \in 1..Len(stdout) : stdout[i].by = "parse" /\ stdout[i].lineno = n

\* the diagnostics, and the lines main() printed, in order
Diagnostics == SelectSeq(stdout, LAMBDA x : x.by = "parse")

MainLines == SelectSeq(stdout, LAMBDA x : x.by = "main")

\* the Events parse() yielded, in file order
YieldedEvents == [i \in 1..Len(yielded) |-> yielded[i][2]]

\* how often e occurs in s
Count(s, e) == Cardinality({i \in 1..Len(s) : s[i] = e})

\* the fields of a token between its '-' characters
RECURSIVE DashFields(_)
DashFields(t) ==
    IF \A i \in 1..Len(t) : t[i] # "-" THEN <<t>>
    ELSE LET i == CHOOSE k \in 1..Len(t) :
                     t[k] = "-" /\ \A j \in 1..(k - 1) : t[j] # "-"
         IN  <<SubSeq(t, 1, i - 1)>> \o DashFields(SubSeq(t, i + 1, Len(t)))

\* a field of 1..k digits and nothing else
IsNumber(f, k) == Len(f) \in 1..k /\ \A i \in 1..Len(f) : IsDigit(f[i])

\* the token is exactly YEAR-MONTH-DAY
FullForm(t) ==
    LET f == DashFields(t)
    IN  Len(f) = 3 /\ IsNumber(f[1], 4) /\ IsNumber(f[2], 2) /\ IsNumber(f[3], 2)

\* the token is exactly MONTH-DAY
RecurringForm(t) ==
    LET f == DashFields(t)
    IN  Len(f) = 2 /\ IsNumber(f[1], 2) /\ IsNumber(f[2], 2)

(***************************************************************************)
(* C1: the load fails as a whole                                           *)
(***************************************************************************)

\* C1: in both modes, when a non-blank line of the file fails to parse the
\* run ends with exit status 1, only after the last line of the file was
\* scanned, and main() prints nothing (no reminder, summary or 'No events'
\* line); when no line fails the run ends with exit status 0, also when no
\* event is kept.  main() is only reached again when no line failed.
C1_LoadFailsAsAWhole ==
    LET bad == {n \in 1..Len(file) : Fails(n)}
    IN  /\ bad # {} => MainLines = <<>>
        /\ (pc = "exit" /\ bad # {}) => (rc = "1" /\ lineno = Len(file))
        /\ (pc = "exit" /\ bad = {}) => rc = "0"
        /\ rc = "1" => (bad # {} /\ lineno = Len(file))
        /\ pc # "exit" => (rc = "" /\ pc \in {"parse", "main"})
        /\ pc = "main" => bad = {}

\* C1's case: a summary run that failed on a bad first line after scanning
\* two more lines, one of which yielded an event the command would keep
C1_Witness ==
    /\ pc = "exit" /\ rc = "1"
    /\ args.summary
    /\ Len(file) = 3 /\ Fails(1) /\ ~Fails(2) /\ ~Fails(3)
    /\ events # <<>>

(***************************************************************************)
(* C2: one diagnostic per malformed line                                   *)
(***************************************************************************)

\* C2: the line numbers of the diagnostics printed so far are, in order,
\* the ascending 1-based physical numbers of the lines scanned so far that
\* are non-empty after comment stripping and fail to parse (one diagnostic
\* each, none for any other line), and the run only ends with every line
\* scanned.
C2_OneDiagnosticPerBadLine ==
    LET bad == {n \in 1..lineno : Fails(n)}
        d == Diagnostics
    IN  /\ Len(d) = Cardinality(bad)
        /\ \A i \in 1..Len(d) : d[i].lineno \in bad
        /\ \A i, j \in 1..Len(d) : i < j => d[i].lineno < d[j].lineno
        /\ errors = Len(d)
        /\ pc # "parse" => lineno = Len(file)

\* C2's case: a comment-only first line, a bad second line and a bad third
\* line, reported as lines 2 and 3
C2_Witness ==
    /\ pc = "exit"
    /\ Len(file) = 3
    /\ LineOf(1) = <<>> /\ file[1] # <<>>
    /\ Fails(2) /\ Fails(3)
    /\ Len(Diagnostics) = 2
    /\ Diagnostics[1].lineno = 2 /\ Diagnostics[2].lineno = 3

\* the month and the day an exact-form token names: its last two fields
MonthOf(t) == Int10(DashFields(t)[Len(DashFields(t)) - 1])

DayOf(t) == Int10(DashFields(t)[Len(DashFields(t))])

\* the most days month m has in any year
MostDays(m) == IF m = 2 THEN 29 ELSE DaysInMonth(1, m)

\* the origin year a full-form token names
YearOf(t) == Int10(DashFields(t)[1])

(***************************************************************************)
(* C3: the projected occurrence                                            *)
(***************************************************************************)

\* C3: for every Event parse() yields against the reference date R: when is
\* a date of the calendar on or after R, has the month and the day of the
\* line's date token, lies in the year of R or the next, and days is when - R
\* in whole days, between 0 and 365.
C3_NextOccurrence ==
    \A i \in 1..Len(yielded) :
        LET n == yielded[i][1]
            ev == yielded[i][2]
            f == DateFields(TokenOf(n))
            R == reference_date
        IN  /\ ValidDate(ev.when.year, ev.when.month, ev.when.day)
            /\ ToOrdinal(ev.when) >= ToOrdinal(R)
            /\ ev.when.month = f[2] /\ ev.when.day = f[3]
            /\ ev.when.year \in {R.year, R.year + 1}
            /\ ev.days = ToOrdinal(ev.when) - ToOrdinal(R)
            /\ ev.days \in 0..365

\* C3's case: an occurrence that has passed this year, so that the event is
\* projected a full 365 days ahead into the next year
C3_Witness ==
    \E i \in 1..Len(yielded) :
        /\ yielded[i][2].when.year = reference_date.year + 1
        /\ yielded[i][2].days = 365

(***************************************************************************)
(* C4: only the two exact token forms are dates                            *)
(***************************************************************************)

\* C4: every scanned line whose date token is neither exactly
\* YEAR-MONTH-DAY (1-4, 1-2 and 1-2 digits) nor exactly MONTH-DAY (1-2
\* digits each) yields no Event and is reported as a malformed date.
C4_OnlyExactFormsAccepted ==
    \A n \in 1..lineno :
        (HasTwoParts(n) /\ ~FullForm(TokenOf(n)) /\ ~RecurringForm(TokenOf(n)))
        => /\ ~YieldedAt(n)
           /\ \E i \in 1..Len(stdout) :
                 /\ stdout[i].by = "parse"
                 /\ stdout[i].lineno = n
                 /\ stdout[i].what = "Malformed date"

(***************************************************************************)
(* C5: an accepted date spec names a real date                             *)
(***************************************************************************)

\* C5: every line of exact form that yields an Event names a month in 1..12
\* and a day that month can have, and a full-form token names a real
\* calendar date of its own origin year.
C5_AcceptedSpecIsARealDate ==
    \A i \in 1..Len(yielded) :
        LET t == TokenOf(yielded[i][1])
        IN  /\ (FullForm(t) \/ RecurringForm(t)) =>
                  /\ MonthOf(t) \in 1..12
                  /\ DayOf(t) \in 1..MostDays(MonthOf(t))
            /\ FullForm(t) => ValidDate(YearOf(t), MonthOf(t), DayOf(t))

(***************************************************************************)
(* C7: the elapsed years                                                   *)
(***************************************************************************)

\* C7: the description of the Event of a full-form line is the line's
\* description followed by ' (K)', K the year of the projected occurrence
\* minus the origin year, whatever the origin year; the description of the
\* Event of a recurring-form line is the line's description unchanged.
C7_ElapsedYears ==
    \A i \in 1..Len(yielded) :
        LET n == yielded[i][1]
            ev == yielded[i][2]
            t == TokenOf(n)
        IN  /\ FullForm(t) =>
                  ev.desc = DescriptionOf(n) \o <<" ", "(">>
                                \o Str(ev.when.year - YearOf(t)) \o <<")">>
            /\ RecurringForm(t) => ev.desc = DescriptionOf(n)

(***************************************************************************)
(* C10: Feb 29                                                             *)
(***************************************************************************)

\* C10: a scanned line whose token names Feb 29, with or without an origin
\* year, yields an Event, dated Feb 29 of the reference year, exactly when
\* the reference year is a leap year and the reference date is not after
\* its Feb 29; otherwise the line yields nothing, is reported with its line
\* number and counted, and the run cannot end but in failure.
C10_LeapDay ==
    \A n \in 1..lineno :
        LET t == TokenOf(n)
            R == reference_date
            inTime == IsLeap(R.year) /\ (R.month = 1 \/ (R.month = 2 /\ R.day <= 29))
        IN  (/\ HasTwoParts(n)
             /\ FullForm(t) \/ RecurringForm(t)
             /\ MonthOf(t) = 2 /\ DayOf(t) = 29)
            => IF inTime
               THEN /\ ~DiagnosedAt(n)
                    /\ \E i \in 1..Len(yielded) :
                          /\ yielded[i][1] = n
                          /\ yielded[i][2].when = Date(R.year, 2, 29)
               ELSE /\ ~YieldedAt(n)
                    /\ DiagnosedAt(n)
                    /\ errors >= 1
                    /\ pc # "main"
                    /\ pc = "exit" => (rc = "1" /\ MainLines = <<>>)

\* C10's case: a Feb 29 line read in a common year whose next year is a
\* leap year; the run has failed
C10_Witness ==
    /\ pc = "exit" /\ rc = "1"
    /\ ~IsLeap(reference_date.year) /\ IsLeap(reference_date.year + 1)
    /\ \E n \in 1..Len(file) :
          /\ HasTwoParts(n) /\ RecurringForm(TokenOf(n))
          /\ MonthOf(TokenOf(n)) = 2 /\ DayOf(TokenOf(n)) = 29
          /\ DiagnosedAt(n)

(***************************************************************************)
(* C6: the phrase of a reminder                                            *)
(***************************************************************************)

\* 'in N days'
InDays(n) == <<"i", "n", " ">> \o Str(n) \o <<" ", "d", "a", "y", "s">>

\* C6: a list run that ends well prints one line per event of its list, the
\* event's description, a space and a phrase: the phrase is 'today' exactly
\* when days is 0, 'tomorrow' exactly when days is 1, and otherwise
\* 'in N days' with N = days, followed by the date of the next occurrence
\* in parentheses exactly when N >= 3.
C6_Phrase ==
    (~args.summary /\ pc = "exit" /\ rc = "0") =>
        /\ Len(MainLines) = Len(events)
        /\ \A i \in 1..Len(events) :
              LET e == events[i]
                  line == MainLines[i].text
                  head == e.desc \o <<" ">>
                  t == SubSeq(line, Len(head) + 1, Len(line))
                  dated == InDays(e.days) \o <<" ", "(">>
                              \o IsoFormat(e.when) \o <<")">>
              IN  /\ Len(line) > Len(head)
                  /\ SubSeq(line, 1, Len(head)) = head
                  /\ t = <<"t", "o", "d", "a", "y">> <=> e.days = 0
                  /\ t = <<"t", "o", "m", "o", "r", "r", "o", "w">> <=> e.days = 1
                  /\ e.days \notin {0, 1} =>
                        /\ t \in {InDays(e.days), dated}
                        /\ t = dated <=> e.days >= 3

\* C6's case: a list run that printed an event of today, one of tomorrow
\* and one further away, in that order
C6_Witness ==
    /\ ~args.summary /\ pc = "exit" /\ rc = "0"
    /\ Len(MainLines) = 3
    /\ events[1].days = 0 /\ events[2].days = 1 /\ events[3].days >= 3

(***************************************************************************)
(* C8: what the list command prints                                        *)
(***************************************************************************)

\* the list command wants e: no day offsets were given, or days is one
Wanted(e) == args.days = <<>> \/ \E k \in 1..Len(args.days) : args.days[k] = e.days

\* C8: a list run over an error-free file prints the lines of the events of
\* its final list, which holds only yielded events that are wanted (all of
\* them when no offsets are given), in non-decreasing order of days; all
\* the wanted events when limit <= 0, the first min(limit, count) otherwise,
\* and no event left out has fewer days than one that is printed.
C8_ListSelection ==
    (~args.summary /\ pc = "exit" /\ rc = "0") =>
        LET M == SelectSeq(YieldedEvents, Wanted)
            P == events
        IN  /\ Len(MainLines) = Len(P)
            /\ \A i \in 1..Len(P) :
                  MainLines[i].text = describe(P[i].days, P[i].desc, P[i].when)
            /\ \A i \in 1..Len(P) : Count(P, P[i]) <= Count(M, P[i])
            /\ \A i, j \in 1..Len(P) : i < j => P[i].days <= P[j].days
            /\ Len(P) = IF args.limit > 0 /\ args.limit < Len(M)
                        THEN args.limit ELSE Len(M)
            /\ \A k \in 1..Len(M) :
                  Count(P, M[k]) < Count(M, M[k])
                  => \A i \in 1..Len(P) : P[i].days <= M[k].days

\* C8's case: day offsets and a limit of 1; of three yielded events two are
\* wanted, and the one printed comes later in the file than the one cut
C8_Witness ==
    /\ ~args.summary /\ pc = "exit" /\ rc = "0"
    /\ args.days # <<>> /\ args.limit = 1
    /\ Len(yielded) = 3 /\ Len(events) = 1
    /\ \E i, j \in 1..3 :
          /\ i < j
          /\ Wanted(YieldedEvents[i]) /\ Wanted(YieldedEvents[j])
          /\ YieldedEvents[i].days > YieldedEvents[j].days
          /\ events[1] = YieldedEvents[j]

(***************************************************************************)
(* C9: what the summary command prints                                     *)
(***************************************************************************)

\* the target of the summary: <year> <month>, or the current month
TargetYear == IF args.ym # <<>> THEN args.ym[1] ELSE TODAY.year

TargetMonth == IF args.ym # <<>> THEN args.ym[2] ELSE TODAY.month

InTarget(e) == e.when.year = TargetYear /\ e.when.month = TargetMonth

\* 'No events in Y-MM'
NoEventsText ==
    <<"N", "o", " ", "e", "v", "e", "n", "t", "s", " ", "i", "n", " ">>
        \o Str(TargetYear) \o <<"-">>
        \o (IF TargetMonth < 10 THEN <<"0">> ELSE <<>>) \o Str(TargetMonth)

\* C9: in a summary run over an error-free file the yielded events whose
\* next occurrence lies in the target year and month are exactly those
\* whose date token names the target month; the run prints one line per
\* such event and no other, in ascending order of the day of the month;
\* and it prints the single line 'No events in Y-MM', and nothing else,
\* exactly when there is no such event.
C9_SummarySelection ==
    (args.summary /\ pc = "exit" /\ rc = "0") =>
        LET S == SelectSeq(YieldedEvents, InTarget)
        IN  /\ \A i \in 1..Len(yielded) :
                  InTarget(yielded[i][2])
                  <=> DateFields(TokenOf(yielded[i][1]))[2] = TargetMonth
            /\ MainLines = <<Printed(NoEventsText)>> <=> S = <<>>
            /\ S # <<>> =>
                  /\ Len(MainLines) = Len(S)
                  /\ Len(events) = Len(S)
                  /\ \A i \in 1..Len(S) : Count(events, S[i]) = Count(S, S[i])
                  /\ \A i, j \in 1..Len(events) :
                        i < j => events[i].when.day <= events[j].when.day
                  /\ \A i \in 1..Len(events) :
                        MainLines[i].text = IsoFormat(events[i].when)
                            \o <<":", " ">> \o events[i].desc

\* C9's case: three events of the target month, the last of the file being
\* the earliest of the month and printed first
C9_Witness ==
    /\ args.summary /\ pc = "exit" /\ rc = "0"
    /\ Len(yielded) = 3 /\ Len(events) = 3
    /\ events[1] = yielded[3][2]
    /\ events[1].when.day < events[2].when.day

====
